---- MODULE Spec2Model ----
(***************************************************************************)
(* A model of samuelbulman/strava:                                         *)
(*   src/modules/postgres.py  the Postgres helper: schema inference, SQL   *)
(*                            generation, the transactional table load     *)
(*   src/strava.py            token workflow, the two fetches, the run     *)
(*                                                                         *)
(* Three specifications share the module:                                  *)
(*   SpecInfer  the pure functions (type inference, value formatting)      *)
(*              applied to every column of a bounded universe              *)
(*   Spec       a Postgres object driven by a sequence of calls            *)
(*              (load_dataframe_to_table, query_postgres) against a        *)
(*              transactional database that may fail any statement         *)
(*   SpecRun    runs of load_strava_data_to_postgres: token workflow,      *)
(*              fetches, and the two loads                                 *)
(***************************************************************************)
EXTENDS Integers, Sequences, FiniteSets, TLC

(***************************************************************************)
(* Bounds of the model.                                                    *)
(***************************************************************************)
\* longest column drawn in SpecInfer
MaxLen == 2
\* most rows in a frame handed to a load
MaxRows == 2
\* calls made on one Postgres object in Spec
MaxCalls == 3
\* program runs in SpecRun
MaxRuns == 2
\* last clock value in SpecRun
MaxTime == 2
\* lifetime the token endpoint grants a refreshed token
TokenTTL == 1

(***************************************************************************)
(* Program constants.                                                      *)
(***************************************************************************)
\* postgres.py:118  "if max_val_len > 9"
IntegerDigits == 9
\* postgres.py:111, 131  'VARCHAR(255)'
DefaultVarchar == 255

(***************************************************************************)
(* Text. A Python str is a sequence of one-character strings, so that     *)
(* len(), replace() and repr() are computed, not assumed.                  *)
(***************************************************************************)
DigitChars == <<"0", "1", "2", "3", "4", "5", "6", "7", "8", "9">>

RECURSIVE NatStr(_)
\* str(n) for n >= 0
NatStr(n) ==
    IF n < 10 THEN <<DigitChars[n + 1]>>
    ELSE Append(NatStr(n \div 10), DigitChars[(n % 10) + 1])

\* repr(n) of a Python int
IntRepr(n) == IF n < 0 THEN <<"-">> \o NatStr(-n) ELSE NatStr(n)

\* repr(x) of a Python float held in tenths (25 is 2.5)
FloatRepr(t) ==
    IF t < 0 THEN <<"-">> \o NatStr((-t) \div 10) \o <<".">> \o NatStr((-t) % 10)
    ELSE NatStr(t \div 10) \o <<".">> \o NatStr(t % 10)

\* str(Decimal) of a decimal held in tenths: Decimal('1') is "1", Decimal('2.5') is "2.5"
DecStr(t) == IF t % 10 = 0 THEN IntRepr(t \div 10) ELSE FloatRepr(t)

RECURSIVE EscapeQuotes(_)
\* value.replace("'", "''")
EscapeQuotes(s) ==
    IF s = <<>> THEN <<>>
    ELSE (IF Head(s) = "'" THEN <<"'", "'">> ELSE <<Head(s)>>) \o EscapeQuotes(Tail(s))

(***************************************************************************)
(* Values of a DataFrame cell, tagged with their Python type.              *)
(*   none   None            nan    float('nan')                            *)
(*   bool   n = 0 / 1       int    n                                       *)
(*   float  n in tenths     dec    Decimal, n in tenths                    *)
(*   str    s                                                              *)
(***************************************************************************)
Val(k, n, s) == [k |-> k, n |-> n, s |-> s]
None == Val("none", 0, <<>>)
NaN == Val("nan", 0, <<>>)
PyBool(b) == Val("bool", IF b THEN 1 ELSE 0, <<>>)
PyInt(i) == Val("int", i, <<>>)
PyFloat(t) == Val("float", t, <<>>)
PyDecimal(t) == Val("dec", t, <<>>)
PyStr(s) == Val("str", 0, s)

\* pd.isnull(x)
IsNull(v) == v.k \in {"none", "nan"}

\* bool(x): the truth value Python gives x
Truthy(v) ==
    CASE v.k \in {"none"} -> FALSE
      [] v.k = "nan" -> TRUE
      [] v.k = "str" -> v.s # <<>>
      [] OTHER -> v.n # 0

\* str(x)
StrOf(v) ==
    CASE v.k = "none" -> <<"N", "o", "n", "e">>
      [] v.k = "nan" -> <<"n", "a", "n">>
      [] v.k = "bool" -> IF v.n = 1 THEN <<"T", "r", "u", "e">> ELSE <<"F", "a", "l", "s", "e">>
      [] v.k = "int" -> IntRepr(v.n)
      [] v.k = "float" -> FloatRepr(v.n)
      [] v.k = "dec" -> DecStr(v.n)
      [] OTHER -> v.s

\* x in [True, False]: Python equality and hashing make 1, 1.0 and Decimal(1)
\* equal to True, and 0, 0.0 and Decimal(0) equal to False
IsInTrueFalse(v) ==
    CASE v.k = "bool" -> TRUE
      [] v.k = "int" -> v.n \in {0, 1}
      [] v.k \in {"float", "dec"} -> v.n \in {0, 10}
      [] OTHER -> FALSE

\* isinstance(x, int): bool is a subclass of int
IsInstanceInt(v) == v.k \in {"int", "bool"}

\* isinstance(x, float) or isinstance(x, Decimal)
IsInstanceFloat(v) == v.k \in {"float", "dec", "nan"}

\* abs(int(x))
AbsInt(v) ==
    LET i == IF v.k \in {"float", "dec"} THEN v.n \div 10 ELSE v.n
    IN IF i < 0 THEN -i ELSE i

(***************************************************************************)
(* Columns. A column carries the dtype pandas gave it:          *)
(* bool and int64 columns hold no nulls, a float64 column holds floats and *)
(* NaN, an object column holds anything.                                   *)
(***************************************************************************)
DTypes == {"bool", "int64", "float64", "object"}

DTypeAdmits(dtype, v) ==
    CASE dtype = "bool" -> v.k = "bool"
      [] dtype = "int64" -> v.k = "int"
      [] dtype = "float64" -> v.k \in {"float", "nan"}
      [] OTHER -> TRUE

\* Series.all() of a boolean series
All(flags) == \A i \in 1..Len(flags) : flags[i]

RECURSIVE MaxOver(_, _)
\* Series.map(f).max(), f already applied
MaxOver(seq, best) ==
    IF seq = <<>> THEN best
    ELSE MaxOver(Tail(seq), IF Head(seq) > best THEN Head(seq) ELSE best)

\* Series.dropna()
DropNa(vals) == SelectSeq(vals, LAMBDA v : ~IsNull(v))

(***************************************************************************)
(* _execute_create_table_query: the column type.                           *)
(***************************************************************************)
SqlType(t, n) == [t |-> t, n |-> n]
Varchar(n) == SqlType("VARCHAR", n)

\* INTEGER off by one digit
IntegerTypeLoose(max_val_len) ==
    IF max_val_len > IntegerDigits + 1 THEN SqlType("BIGINT", 0) ELSE SqlType("INTEGER", 0)

\* postgres.py:118-121
IntegerType(max_val_len) ==
    IF max_val_len > IntegerDigits THEN SqlType("BIGINT", 0) ELSE SqlType("INTEGER", 0)

\* pd.api.types.is_string_dtype(series) on what reaches line 126 (an object
\* column): pandas before 2.0 answers True for any object column, pandas
\* from 2.0 on only when every element is a str. legacy is which.
IsStringDtype(dtype, non_null_series, legacy) ==
    /\ dtype = "object"
    /\ legacy \/ All([i \in 1..Len(non_null_series) |-> non_null_series[i].k = "str"])

\* postgres.py:108-131
ColumnType(c, legacy) ==
    LET non_null_series == DropNa(c.vals)
        idx == 1..Len(non_null_series)
        isin == [i \in idx |-> IsInTrueFalse(non_null_series[i])]
        isint == [i \in idx |-> IsInstanceInt(non_null_series[i])]
        isfloat == [i \in idx |-> IsInstanceFloat(non_null_series[i])]
        digits == [i \in idx |-> Len(NatStr(AbsInt(non_null_series[i])))]
        lens == [i \in idx |-> IF Truthy(non_null_series[i])
                               THEN Len(StrOf(non_null_series[i])) ELSE 0]
    IN IF non_null_series = <<>> THEN Varchar(DefaultVarchar)
       ELSE IF c.dtype = "bool" \/ All(isin) THEN SqlType("BOOLEAN", 0)
       ELSE IF c.dtype = "int64" \/ All(isint) THEN IntegerType(MaxOver(digits, 0))
       ELSE IF c.dtype = "float64" \/ All(isfloat) THEN SqlType("FLOAT", 0)
       ELSE IF IsStringDtype(c.dtype, non_null_series, legacy) THEN Varchar(MaxOver(lens, 0))
       ELSE Varchar(DefaultVarchar)

(***************************************************************************)
(* _execute_insert_into_values_query: the text of one value.               *)
(***************************************************************************)
\* postgres.py:160-176
ValueRepr(v) ==
    CASE v.k = "none" -> <<"N", "U", "L", "L">>
      [] v.k = "bool" -> IF v.n = 1 THEN <<"T", "R", "U", "E">> ELSE <<"F", "A", "L", "S", "E">>
      [] v.k = "dec" -> FloatRepr(v.n)
      [] v.k = "str" -> <<"'">> \o EscapeQuotes(v.s) \o <<"'">>
      [] v.k = "int" -> IntRepr(v.n)
      [] v.k = "float" -> FloatRepr(v.n)
      [] OTHER -> <<"n", "a", "n">>

(***************************************************************************)
(* The database's side of a literal: how PostgreSQL reads the text the     *)
(* INSERT carries, and which column types take it.                         *)
(***************************************************************************)
NumberChars == {DigitChars[i] : i \in 1..10} \cup {"-", "."}

\* the lexical class of one VALUES entry
LiteralKind(text) ==
    CASE text = <<"N", "U", "L", "L">> -> "NULL"
      [] text \in {<<"T", "R", "U", "E">>, <<"F", "A", "L", "S", "E">>} -> "BOOLKW"
      [] text # <<>> /\ Head(text) = "'" -> "STR"
      [] text # <<>> /\ (\A i \in 1..Len(text) : text[i] \in NumberChars) -> "NUM"
      [] OTHER -> "BARE"

\* characters of a quoted literal once the doubled quotes are read back
QuotedLen(text) ==
    LET inner == SubSeq(text, 2, Len(text) - 1)
        quotes == Cardinality({i \in 1..Len(inner) : inner[i] = "'"})
    IN Len(inner) - (quotes \div 2)

\* PostgreSQL's assignment of a literal to a column: NULL goes anywhere, a
\* bare word such as nan is no literal, numbers and booleans do not convert
\* into each other, anything converts to a character type that is wide enough
Accepts(type, text) ==
    LET kind == LiteralKind(text)
    IN CASE kind = "NULL" -> TRUE
         [] kind = "BOOLKW" -> type.t \in {"BOOLEAN", "VARCHAR"}
         [] kind = "NUM" -> type.t \in {"INTEGER", "BIGINT", "FLOAT", "VARCHAR"}
         [] kind = "STR" -> type.t = "VARCHAR" /\ QuotedLen(text) <= type.n
         [] OTHER -> FALSE

\* a column definition PostgreSQL takes: VARCHAR(0) is refused
TypeDeclarable(type) == type.t = "VARCHAR" => type.n >= 1

(***************************************************************************)
(* The universe SpecInfer draws columns from.                              *)
(***************************************************************************)
ValueUniverse ==
    { None, NaN, PyBool(TRUE), PyBool(FALSE),
      PyInt(0), PyInt(1), PyInt(42), PyInt(999999999), PyInt(1000000000),
      PyInt(-1000000000),
      PyFloat(0), PyFloat(10), PyFloat(25),
      PyDecimal(10), PyDecimal(25),
      PyStr(<<>>), PyStr(<<"a">>), PyStr(<<"O", "'", "B">>) }

ValueSeqs == UNION {[1..n -> ValueUniverse] : n \in 0..MaxLen}

Columns ==
    { c \in [dtype : DTypes, vals : ValueSeqs] :
        \A i \in 1..Len(c.vals) : DTypeAdmits(c.dtype, c.vals[i]) }

NoType == SqlType("", 0)

(***************************************************************************)
(* Frames handed to load_dataframe_to_table: the two-column frame          *)
(* fetch_strava_athletes builds (an id, a name), with n rows; the          *)
(* activities frame is modelled by its first two columns, activity_id and  *)
(* activity_name. NoFrame is None, what a failed fetch returns.            *)
(***************************************************************************)
Names == <<PyStr(<<"a">>), PyStr(<<"O", "'", "B">>)>>

\* strava.py:101-106 (and 36-71): a DataFrame of n records
Frame(idcol, namecol, n) ==
    [ isNone |-> FALSE,
      nrows |-> n,
      cols |-> << [ name |-> idcol,
                    dtype |-> IF n = 0 THEN "object" ELSE "int64",
                    vals |-> [i \in 1..n |-> PyInt(41 + i)] ],
                  [ name |-> namecol,
                    dtype |-> "object",
                    vals |-> [i \in 1..n |-> Names[((i - 1) % 2) + 1]] ] >> ]

NoFrame == [isNone |-> TRUE, nrows |-> 0, cols |-> <<>>]

AthleteFrame(n) == Frame("athlete_id", "athlete_full_name", n)
ActivityFrame(n) == Frame("activity_id", "activity_name", n)

\* strava.py:180, 194
ActivitiesTable == "sb.strava_activities"
AthletesTable == "sb.strava_athletes"
TableNames == {ActivitiesTable, AthletesTable}

(***************************************************************************)
(* The statements the load builds.                                         *)
(***************************************************************************)
\* postgres.py:104-135: CREATE TABLE t (c1 type1, c2 type2, ...)
CreateStatement(frame, table, legacy) ==
    [ table |-> table,
      cols |-> [j \in 1..Len(frame.cols) |->
                  [ name |-> frame.cols[j].name,
                    type |-> ColumnType([dtype |-> frame.cols[j].dtype,
                                         vals |-> frame.cols[j].vals], legacy) ]] ]

\* postgres.py:145-191: INSERT INTO t (c1, c2, ...) VALUES (..), (..), ...
InsertStatement(frame, table) ==
    [ table |-> table,
      columns |-> [j \in 1..Len(frame.cols) |-> frame.cols[j].name],
      values |-> [i \in 1..frame.nrows |->
                    [j \in 1..Len(frame.cols) |-> ValueRepr(frame.cols[j].vals[i])]] ]

(***************************************************************************)
(* The database: tables with their column types and rows, a committed      *)
(* state and the working state of the open transaction.                    *)
(***************************************************************************)
NoTable == [exists |-> FALSE, cols |-> <<>>, rows |-> <<>>]

\* CREATE TABLE is taken when the table is not there and every type is declarable
CreateAccepted(stmt, db) ==
    /\ ~db[stmt.table].exists
    /\ \A j \in 1..Len(stmt.cols) : TypeDeclarable(stmt.cols[j].type)

\* INSERT ... VALUES is taken when it has at least one row (VALUES followed by
\* nothing is a syntax error) and every entry suits its column
InsertAccepted(stmt, db) ==
    /\ db[stmt.table].exists
    /\ Len(stmt.values) >= 1
    /\ \A i \in 1..Len(stmt.values) :
          /\ Len(stmt.values[i]) = Len(db[stmt.table].cols)
          /\ \A j \in 1..Len(stmt.values[i]) :
                Accepts(db[stmt.table].cols[j].type, stmt.values[i][j])

Created(stmt) == [exists |-> TRUE, cols |-> stmt.cols, rows |-> <<>>]

\* the table a whole load of the frame leaves
LoadedTable(frame, table, legacy) ==
    [ exists |-> TRUE,
      cols |-> CreateStatement(frame, table, legacy).cols,
      rows |-> InsertStatement(frame, table).values ]

Stmt(op, ok) == [op |-> op, ok |-> ok]

\* every statement takes effect at once
AutocommitOn == TRUE

\* postgres.py:210-218: psycopg2.connect(...) with autocommit left at its
\* default, off: statements take effect at COMMIT
Autocommit == FALSE

\* DROP whether or not the table was found
AlwaysDrop(found) == TRUE

\* postgres.py:80  "if table_exists:"
NeedsDrop(found) == found

VARIABLES
    \* SpecInfer: the column, the inferred type, the rendered values, the position
    col, ctype, lits, ipc,
    \* which pandas runs (see IsStringDtype)
    objectIsString,
    \* the Postgres object: self.conn, self.cursor (0: the attribute is not
    \* set, k: the k-th connection made)
    conn, cursor,
    \* the database server: each connection and cursor made ("open" or
    \* "closed"), the committed tables, the open transaction's tables
    conns, cursors, tables, tx,
    \* the call in progress: its position, which method, its arguments, the
    \* connection it made, the exception leaving it, the statements it issued,
    \* what the existence check answered, whether the database failed a
    \* well-formed statement, the tables when it began, whether it committed
    pc, call, df, destination_table, sqlValid, opened, exc, log, table_exists, faulted, pre, committed,
    \* history: the load that ended just before this call, whether a call
    \* acted on an open connection another call made, the calls made
    prev, foreign, calls,
    \* strava.py: the position in load_strava_data_to_postgres and which of
    \* its two halves, the token file, the clock, the runs started, the access
    \* token a fetch holds, the refresh response, what the token workflow in
    \* progress read and did,
    \* the frame a fetch returned, the destinations whose fetch failed in this
    \* run, the exception that ended the run
    rpc, stage, tokenFile, now, runs, access_token, new_token_data, wf, strava_df, fetchFailed, crash

inferVars == <<col, ctype, lits, ipc>>
objVars == <<conn, cursor>>
dbVars == <<conns, cursors, tables, tx>>
callVars == <<pc, call, df, destination_table, sqlValid, opened, exc, log, table_exists, faulted, pre, committed>>
histVars == <<prev, foreign, calls>>
runVars == <<rpc, stage, tokenFile, now, runs, access_token, new_token_data, wf, strava_df, fetchFailed, crash>>

vars == <<inferVars, objectIsString, objVars, dbVars, callVars, histVars, runVars>>

NoPrev == [valid |-> FALSE, frame |-> NoFrame, destination_table |-> ActivitiesTable, clean |-> FALSE]

\* nothing drawn, nothing inferred
IdleInfer ==
    /\ col = [dtype |-> "object", vals |-> <<>>]
    /\ ctype = NoType
    /\ lits = <<>>
    /\ ipc = "off"

\* the token file's JSON: ok says it holds access_token, refresh_token and
\* expires_at; tokens are numbered in the order the endpoint issued them
TokenData(ok, n, expires_at) ==
    [ok |-> ok, access_token |-> n, refresh_token |-> n, expires_at |-> expires_at]

\* the JSON of an error response: none of the three keys
ErrorData == TokenData(FALSE, 0, 0)

NoWorkflow == [expires_at |-> 0, read_at |-> 0, stored |-> 0, sent |-> 0, events |-> <<>>]

\* no run of strava.py
IdleRun ==
    /\ rpc = "off" /\ stage = "activities"
    /\ tokenFile = TokenData(TRUE, 1, 0)
    /\ now = 0 /\ runs = 0 /\ access_token = 0
    /\ new_token_data = ErrorData
    /\ wf = NoWorkflow
    /\ strava_df = NoFrame
    /\ fetchFailed = {} /\ crash = ""

\* Postgres(): the object after __init__, which sets neither conn nor
\* cursor; a database with neither destination table
InitPg ==
    /\ conn = 0 /\ cursor = 0
    /\ conns = <<>> /\ cursors = <<>>
    /\ tables = [t \in TableNames |-> NoTable]
    /\ tx = [t \in TableNames |-> NoTable]
    /\ pc = "idle" /\ call = ""
    /\ df = NoFrame /\ destination_table = ActivitiesTable /\ sqlValid = TRUE
    /\ opened = 0 /\ exc = "" /\ log = <<>>
    /\ table_exists = FALSE /\ faulted = FALSE
    /\ pre = [t \in TableNames |-> NoTable]
    /\ committed = FALSE
    /\ prev = NoPrev /\ foreign = FALSE /\ calls = 0

(***************************************************************************)
(* SpecInfer: the two pure functions applied to one column, in the order   *)
(* load_dataframe_to_table calls them.                                     *)
(***************************************************************************)
InitInfer ==
    /\ col \in Columns
    /\ objectIsString \in BOOLEAN
    /\ ctype = NoType
    /\ lits = <<>>
    /\ ipc = "start"
    /\ InitPg
    /\ IdleRun

\* _execute_create_table_query on the column
InferColumn ==
    /\ ipc = "start"
    /\ ctype' = ColumnType(col, objectIsString)
    /\ ipc' = "typed"
    /\ UNCHANGED <<col, lits, objectIsString, objVars, dbVars, callVars, histVars, runVars>>

\* _execute_insert_into_values_query on the column's values
RenderColumn ==
    /\ ipc = "typed"
    /\ lits' = [i \in 1..Len(col.vals) |-> ValueRepr(col.vals[i])]
    /\ ipc' = "rendered"
    /\ UNCHANGED <<col, ctype, objectIsString, objVars, dbVars, callVars, histVars, runVars>>

NextInfer == InferColumn \/ RenderColumn

SpecInfer == InitInfer /\ [][NextInfer]_vars

(***************************************************************************)
(* The Postgres helper, one step per database interaction.                 *)
(***************************************************************************)
\* the effect of a statement the database took: on the transaction, and on
\* the committed tables too when the connection autocommits
Apply(newtx) ==
    /\ tx' = newtx
    /\ tables' = IF Autocommit THEN newtx ELSE tables

\* postgres.py:208-218  _connect, when psycopg2.connect returns
Connected ==
    /\ conns' = Append(conns, "open")
    /\ cursors' = Append(cursors, "open")
    /\ conn' = Len(conns) + 1
    /\ cursor' = Len(conns) + 1
    /\ opened' = Len(conns) + 1
    /\ tx' = tables
    /\ UNCHANGED tables

\* entry of load_dataframe_to_table(frame, table)
BeginLoad(frame, table) ==
    /\ pc' = "l_connect" /\ call' = "load"
    /\ df' = frame /\ destination_table' = table
    /\ opened' = 0 /\ exc' = "" /\ log' = <<>>
    /\ table_exists' = FALSE /\ faulted' = FALSE
    /\ pre' = tables /\ committed' = FALSE
    /\ UNCHANGED <<sqlValid, objVars, dbVars>>

\* postgres.py:75  self._connect() inside the try
LoadConnect ==
    /\ pc = "l_connect"
    /\ \E ok \in BOOLEAN :
          IF ok
          THEN /\ Connected
               /\ pc' = "l_check"
               /\ UNCHANGED faulted
          ELSE /\ pc' = "l_rollback"
               /\ faulted' = TRUE
               /\ UNCHANGED <<objVars, dbVars, opened>>
    /\ UNCHANGED <<call, df, destination_table, sqlValid, exc, log, table_exists, pre, committed>>
    /\ UNCHANGED <<inferVars, objectIsString, runVars, histVars>>

\* postgres.py:78-80  the existence check and fetchone()[0]
LoadCheck ==
    /\ pc = "l_check"
    /\ \E ok \in BOOLEAN :
          /\ log' = Append(log, Stmt("CHECK", ok))
          /\ faulted' = (faulted \/ ~ok)
          /\ IF ok
             THEN /\ table_exists' = tx[destination_table].exists
                  /\ pc' = IF NeedsDrop(tx[destination_table].exists) THEN "l_drop" ELSE "l_create"
             ELSE /\ pc' = "l_rollback"
                  /\ UNCHANGED table_exists
    /\ UNCHANGED <<call, df, destination_table, sqlValid, opened, exc, pre, committed>>
    /\ UNCHANGED <<inferVars, objectIsString, runVars, objVars, dbVars, histVars>>

\* postgres.py:81  DROP TABLE IF EXISTS
LoadDrop ==
    /\ pc = "l_drop"
    /\ \E ok \in BOOLEAN :
          /\ log' = Append(log, Stmt("DROP", ok))
          /\ faulted' = (faulted \/ ~ok)
          /\ IF ok
             THEN /\ Apply([tx EXCEPT ![destination_table] = NoTable])
                  /\ pc' = "l_create"
             ELSE /\ pc' = "l_rollback"
                  /\ UNCHANGED <<tables, tx>>
    /\ UNCHANGED <<call, df, destination_table, sqlValid, opened, exc, table_exists, pre, committed>>
    /\ UNCHANGED <<inferVars, objectIsString, runVars, objVars, conns, cursors, histVars>>

\* postgres.py:85, 101-138  _execute_create_table_query. With df None,
\* df.columns raises before any statement is built.
LoadCreate ==
    /\ pc = "l_create"
    /\ IF df.isNone
       THEN /\ pc' = "l_rollback"
            /\ UNCHANGED <<log, faulted, tables, tx>>
       ELSE \E ok \in BOOLEAN :
              LET stmt == CreateStatement(df, destination_table, objectIsString)
                  taken == ok /\ CreateAccepted(stmt, tx)
              IN /\ log' = Append(log, Stmt("CREATE", taken))
                 /\ faulted' = (faulted \/ ~ok)
                 /\ IF taken
                    THEN /\ Apply([tx EXCEPT ![destination_table] = Created(stmt)])
                         /\ pc' = "l_insert"
                    ELSE /\ pc' = "l_rollback"
                         /\ UNCHANGED <<tables, tx>>
    /\ UNCHANGED <<call, df, destination_table, sqlValid, opened, exc, table_exists, pre, committed>>
    /\ UNCHANGED <<inferVars, objectIsString, runVars, objVars, conns, cursors, histVars>>

\* postgres.py:89, 141-194  _execute_insert_into_values_query
LoadInsert ==
    /\ pc = "l_insert"
    /\ \E ok \in BOOLEAN :
          LET stmt == InsertStatement(df, destination_table)
              taken == ok /\ InsertAccepted(stmt, tx)
          IN /\ log' = Append(log, Stmt("INSERT", taken))
             /\ faulted' = (faulted \/ ~ok)
             /\ IF taken
                THEN /\ Apply([tx EXCEPT ![destination_table].rows = stmt.values])
                     /\ pc' = "l_commit"
                ELSE /\ pc' = "l_rollback"
                     /\ UNCHANGED <<tables, tx>>
    /\ UNCHANGED <<call, df, destination_table, sqlValid, opened, exc, table_exists, pre, committed>>
    /\ UNCHANGED <<inferVars, objectIsString, runVars, objVars, conns, cursors, histVars>>

\* postgres.py:90, 227-228  self._commit()
LoadCommit ==
    /\ pc = "l_commit"
    /\ \E ok \in BOOLEAN :
          /\ log' = Append(log, Stmt("COMMIT", ok))
          /\ faulted' = (faulted \/ ~ok)
          /\ IF ok
             THEN /\ tables' = tx
                  /\ committed' = TRUE
                  /\ pc' = "l_disconnect"
             ELSE /\ pc' = "l_rollback"
                  /\ UNCHANGED <<tables, committed>>
    /\ UNCHANGED <<call, df, destination_table, sqlValid, opened, exc, table_exists, pre, tx>>
    /\ UNCHANGED <<inferVars, objectIsString, runVars, objVars, conns, cursors, histVars>>

\* postgres.py:93-95, 231-232  except: self._rollback(). self.conn is what
\* the last successful _connect left: nothing on a new object
\* (AttributeError), a closed connection (psycopg2 raises InterfaceError), or
\* an open one, which is rolled back.
LoadRollback ==
    /\ pc = "l_rollback"
    /\ IF conn = 0
       THEN /\ exc' = "AttributeError"
            /\ UNCHANGED <<log, tx, foreign>>
       ELSE IF conns[conn] = "closed"
       THEN /\ exc' = "InterfaceError"
            /\ UNCHANGED <<log, tx, foreign>>
       ELSE /\ log' = Append(log, Stmt("ROLLBACK", TRUE))
            /\ tx' = tables
            /\ foreign' = (foreign \/ conn # opened)
            /\ UNCHANGED exc
    /\ pc' = "l_disconnect"
    /\ UNCHANGED <<call, df, destination_table, sqlValid, opened, table_exists, faulted, pre, committed>>
    /\ UNCHANGED <<inferVars, objectIsString, runVars, objVars, conns, cursors, tables, prev, calls>>

\* postgres.py:221-224  _disconnect: self.cursor.close(); self.conn.close().
\* Closing discards what the transaction had not committed.
Disconnected ==
    /\ cursors' = [cursors EXCEPT ![cursor] = "closed"]
    /\ conns' = [conns EXCEPT ![conn] = "closed"]
    /\ foreign' = (foreign \/ (conn # opened /\ conns[conn] = "open"))
    /\ tx' = tables
    /\ UNCHANGED tables

\* postgres.py:97-98  finally: self._disconnect(); then the call returns, or
\* the exception the handler raised leaves it
LoadDisconnect ==
    /\ pc = "l_disconnect"
    /\ IF cursor = 0
       THEN /\ exc' = "AttributeError"
            /\ pc' = "raised"
            /\ UNCHANGED <<dbVars, foreign>>
       ELSE /\ Disconnected
            /\ pc' = IF exc # "" THEN "raised" ELSE "returned"
            /\ UNCHANGED exc
    /\ UNCHANGED <<call, df, destination_table, sqlValid, opened, log, table_exists, faulted, pre, committed>>
    /\ UNCHANGED <<inferVars, objectIsString, runVars, objVars, prev, calls>>

\* entry of query_postgres(sql_query); sqlValid: the query is one the
\* database can run and that returns rows
BeginQuery(valid) ==
    /\ pc' = "q_connect" /\ call' = "query"
    /\ sqlValid' = valid
    /\ opened' = 0 /\ exc' = "" /\ log' = <<>>
    /\ table_exists' = FALSE /\ faulted' = FALSE
    /\ pre' = tables /\ committed' = FALSE
    /\ UNCHANGED <<df, destination_table, objVars, dbVars>>

\* postgres.py:38  self._connect(), no handler around it
QueryConnect ==
    /\ pc = "q_connect"
    /\ \E ok \in BOOLEAN :
          IF ok
          THEN /\ Connected
               /\ pc' = "q_execute"
               /\ UNCHANGED <<exc, faulted>>
          ELSE /\ pc' = "raised"
               /\ exc' = "OperationalError"
               /\ faulted' = TRUE
               /\ UNCHANGED <<objVars, dbVars, opened>>
    /\ UNCHANGED <<call, df, destination_table, sqlValid, log, table_exists, pre, committed>>
    /\ UNCHANGED <<inferVars, objectIsString, runVars, histVars>>

\* postgres.py:40-46  self._execute(sql_query), cursor.description,
\* fetchall(): an error leaves the method at once
QueryExecute ==
    /\ pc = "q_execute"
    /\ \E ok \in BOOLEAN :
          /\ log' = Append(log, Stmt("QUERY", ok /\ sqlValid))
          /\ faulted' = (faulted \/ ~ok)
          /\ IF ok /\ sqlValid
             THEN /\ pc' = "q_disconnect"
                  /\ UNCHANGED exc
             ELSE /\ pc' = "raised"
                  /\ exc' = "DatabaseError"
    /\ UNCHANGED <<call, df, destination_table, sqlValid, opened, table_exists, pre, committed>>
    /\ UNCHANGED <<inferVars, objectIsString, runVars, objVars, dbVars, histVars>>

\* postgres.py:49  self._disconnect(), then the result is returned
QueryDisconnect ==
    /\ pc = "q_disconnect"
    /\ Disconnected
    /\ pc' = "returned"
    /\ UNCHANGED <<call, df, destination_table, sqlValid, opened, exc, log, table_exists, faulted, pre, committed>>
    /\ UNCHANGED <<inferVars, objectIsString, runVars, objVars, prev, calls>>

LoadStep ==
    \/ LoadConnect \/ LoadCheck \/ LoadDrop \/ LoadCreate
    \/ LoadInsert \/ LoadCommit \/ LoadRollback \/ LoadDisconnect

QueryStep == QueryConnect \/ QueryExecute \/ QueryDisconnect

(***************************************************************************)
(* Spec: a caller that makes up to MaxCalls calls on one Postgres object   *)
(* and goes on after a call that raised.                                   *)
(***************************************************************************)
Frames == {AthleteFrame(n) : n \in 0..MaxRows}

Init ==
    /\ IdleInfer
    /\ objectIsString \in BOOLEAN
    /\ InitPg
    /\ IdleRun

\* psql.load_dataframe_to_table(df=frame, destination_table=table)
LoadCall ==
    /\ pc = "idle"
    /\ calls < MaxCalls
    /\ \E frame \in Frames \cup {NoFrame}, table \in TableNames : BeginLoad(frame, table)
    /\ calls' = calls + 1
    /\ UNCHANGED <<inferVars, objectIsString, runVars, prev, foreign>>

\* psql.query_postgres(sql_query)
QueryCall ==
    /\ pc = "idle"
    /\ calls < MaxCalls
    /\ \E valid \in BOOLEAN : BeginQuery(valid)
    /\ calls' = calls + 1
    /\ UNCHANGED <<inferVars, objectIsString, runVars, prev, foreign>>

\* the call is over: it returned, or the caller caught what it raised
CallEnds ==
    /\ pc \in {"returned", "raised"}
    /\ pc' = "idle"
    /\ prev' = IF call = "load"
               THEN [valid |-> TRUE, frame |-> df, destination_table |-> destination_table, clean |-> ~faulted]
               ELSE NoPrev
    /\ UNCHANGED <<call, df, destination_table, sqlValid, opened, exc, log, table_exists, faulted, pre, committed>>
    /\ UNCHANGED <<inferVars, objectIsString, runVars, objVars, dbVars, foreign, calls>>

Next == LoadCall \/ QueryCall \/ CallEnds \/ LoadStep \/ QueryStep

Spec == Init /\ [][Next]_vars

(***************************************************************************)
(* SpecRun: strava.py run as a program, up to MaxRuns times, against one   *)
(* token file and one database. The clock may advance between any two      *)
(* steps. The token endpoint and the API answer with success or with an    *)
(* error response.                                                         *)
(***************************************************************************)
\* the test inverted at the boundary
ExpiredOrNow(token_data, t) == token_data.expires_at <= t

\* strava.py:122  token_data["expires_at"] < time.time()
Expired(token_data, t) == token_data.expires_at < t

TableOf(s) == IF s = "activities" THEN ActivitiesTable ELSE AthletesTable

InitRun ==
    /\ IdleInfer
    /\ objectIsString \in BOOLEAN
    /\ InitPg
    /\ rpc = "idle" /\ stage = "activities"
    /\ tokenFile \in {TokenData(TRUE, 1, e) : e \in 0..MaxTime}
    /\ now \in 0..MaxTime
    /\ runs = 0 /\ access_token = 0
    /\ new_token_data = ErrorData
    /\ wf = NoWorkflow
    /\ strava_df = NoFrame
    /\ fetchFailed = {} /\ crash = ""

\* time.time() moves on
Tick ==
    /\ rpc # "off"
    /\ now < MaxTime
    /\ now' = now + 1
    /\ UNCHANGED <<rpc, stage, tokenFile, runs, access_token, new_token_data, wf, strava_df, fetchFailed, crash>>
    /\ UNCHANGED <<inferVars, objectIsString, objVars, dbVars, callVars, histVars>>

\* strava.py:208-213, 165-168: the program starts; psql = Postgres()
RunStart ==
    /\ rpc = "idle"
    /\ runs < MaxRuns
    /\ runs' = runs + 1
    /\ rpc' = "token" /\ stage' = "activities"
    /\ conn' = 0 /\ cursor' = 0
    /\ call' = "" /\ log' = <<>> /\ opened' = 0 /\ exc' = ""
    /\ access_token' = 0 /\ wf' = NoWorkflow /\ strava_df' = NoFrame
    /\ fetchFailed' = {} /\ crash' = ""
    /\ UNCHANGED <<tokenFile, now, new_token_data>>
    /\ UNCHANGED <<pc, df, destination_table, sqlValid, table_exists, faulted, pre, committed>>
    /\ UNCHANGED <<inferVars, objectIsString, dbVars, histVars>>

\* strava.py:115, 122, 143: access_token_workflow reads the token file and
\* tests expires_at; a file without expires_at ends the run (KeyError)
WorkflowRead ==
    /\ rpc = "token"
    /\ IF ~tokenFile.ok
       THEN /\ rpc' = "idle" /\ crash' = "token"
            /\ UNCHANGED <<access_token, wf>>
       ELSE /\ wf' = [ expires_at |-> tokenFile.expires_at, read_at |-> now,
                       stored |-> tokenFile.access_token, sent |-> 0, events |-> <<>> ]
            /\ IF Expired(tokenFile, now)
               THEN /\ rpc' = "post"
                    /\ UNCHANGED access_token
               ELSE /\ rpc' = "get"
                    /\ access_token' = tokenFile.access_token
            /\ UNCHANGED crash
    /\ UNCHANGED <<stage, tokenFile, now, runs, new_token_data, strava_df, fetchFailed>>
    /\ UNCHANGED <<inferVars, objectIsString, objVars, dbVars, callVars, histVars>>

\* strava.py:123-133: the refresh POST and its JSON body: a new token,
\* valid for TokenTTL from now, or an error object
WorkflowPost ==
    /\ rpc = "post"
    /\ \E ok \in BOOLEAN :
          new_token_data' = IF ok
                            THEN TokenData(TRUE, tokenFile.access_token + 1, now + TokenTTL)
                            ELSE ErrorData
    /\ wf' = [wf EXCEPT !.events = Append(@, "POST")]
    /\ rpc' = "save"
    /\ UNCHANGED <<stage, tokenFile, now, runs, access_token, strava_df, fetchFailed, crash>>
    /\ UNCHANGED <<inferVars, objectIsString, objVars, dbVars, callVars, histVars>>

\* strava.py:135-140, 153-162: save_token_data_locally overwrites the file
\* with the response, whatever it is; then new_token_data["access_token"],
\* a KeyError on an error object, which ends the run
WorkflowSave ==
    /\ rpc = "save"
    /\ tokenFile' = new_token_data
    /\ wf' = [wf EXCEPT !.events = Append(@, "WRITE")]
    /\ IF new_token_data.ok
       THEN /\ access_token' = new_token_data.access_token
            /\ rpc' = "get"
            /\ UNCHANGED crash
       ELSE /\ rpc' = "idle" /\ crash' = "token"
            /\ UNCHANGED access_token
    /\ UNCHANGED <<stage, now, runs, new_token_data, strava_df, fetchFailed>>
    /\ UNCHANGED <<inferVars, objectIsString, objVars, dbVars, callVars, histVars>>

\* strava.py:26-77: fetch_strava_activities after the workflow: the GET, a
\* frame of the activities on 200, otherwise a message and None
FetchActivities ==
    /\ rpc = "get" /\ stage = "activities"
    /\ wf' = [wf EXCEPT !.events = Append(@, "GET"), !.sent = access_token]
    /\ \E failed \in BOOLEAN, n \in 0..MaxRows :
          IF failed
          THEN strava_df' = NoFrame /\ fetchFailed' = fetchFailed \cup {ActivitiesTable}
          ELSE strava_df' = ActivityFrame(n) /\ UNCHANGED fetchFailed
    /\ rpc' = "load"
    /\ UNCHANGED <<stage, tokenFile, now, runs, access_token, new_token_data, crash>>
    /\ UNCHANGED <<inferVars, objectIsString, objVars, dbVars, callVars, histVars>>

\* strava.py:91-106: fetch_strava_athletes after the workflow: the GET, a
\* one-row frame on 200; otherwise user_dict was never bound and line 106
\* raises UnboundLocalError, which ends the run
FetchAthletes ==
    /\ rpc = "get" /\ stage = "athletes"
    /\ wf' = [wf EXCEPT !.events = Append(@, "GET"), !.sent = access_token]
    /\ \E ok \in BOOLEAN :
          IF ok
          THEN /\ strava_df' = AthleteFrame(1)
               /\ rpc' = "load"
               /\ UNCHANGED <<fetchFailed, crash>>
          ELSE /\ fetchFailed' = fetchFailed \cup {AthletesTable}
               /\ rpc' = "idle" /\ crash' = "fetch"
               /\ UNCHANGED strava_df
    /\ UNCHANGED <<stage, tokenFile, now, runs, access_token, new_token_data>>
    /\ UNCHANGED <<inferVars, objectIsString, objVars, dbVars, callVars, histVars>>

\* strava.py:178-181, 192-195: psql.load_dataframe_to_table(df=strava_df, ...)
RunLoad ==
    /\ rpc = "load" /\ pc = "idle"
    /\ BeginLoad(strava_df, TableOf(stage))
    /\ rpc' = "loading"
    /\ UNCHANGED <<stage, tokenFile, now, runs, access_token, new_token_data, wf, strava_df, fetchFailed, crash>>
    /\ UNCHANGED <<inferVars, objectIsString, histVars>>

\* the load is over: the run goes on to the athletes, or ends; an exception
\* that left the load ends the run, nothing in strava.py catches it
RunLoadEnds ==
    /\ rpc = "loading" /\ pc \in {"returned", "raised"}
    /\ pc' = "idle"
    /\ IF pc = "raised"
       THEN rpc' = "idle" /\ crash' = "load" /\ UNCHANGED stage
       ELSE /\ UNCHANGED crash
            /\ IF stage = "activities"
               THEN rpc' = "token" /\ stage' = "athletes"
               ELSE rpc' = "idle" /\ UNCHANGED stage
    /\ UNCHANGED <<tokenFile, now, runs, access_token, new_token_data, wf, strava_df, fetchFailed>>
    /\ UNCHANGED <<call, df, destination_table, sqlValid, opened, exc, log, table_exists, faulted, pre, committed>>
    /\ UNCHANGED <<inferVars, objectIsString, objVars, dbVars, histVars>>

NextRun ==
    \/ Tick \/ RunStart
    \/ WorkflowRead \/ WorkflowPost \/ WorkflowSave
    \/ FetchActivities \/ FetchAthletes
    \/ RunLoad \/ RunLoadEnds
    \/ LoadStep

SpecRun == InitRun /\ [][NextRun]_vars

(***************************************************************************)
(* Claims about the pure functions (SpecInfer).                            *)
(***************************************************************************)
NonNull(c) == DropNa(c.vals)
Magnitude(v) == IF v.n < 0 THEN -v.n ELSE v.n
\* the column's non-null values are all integers, and there is one
IntegerColumn(c) == NonNull(c) # <<>> /\ (\A i \in 1..Len(NonNull(c)) : NonNull(c)[i].k = "int")
\* more than 9 decimal digits: a magnitude of 10^9 or more
HasLongInteger(c) == \E i \in 1..Len(c.vals) : c.vals[i].k = "int" /\ Magnitude(c.vals[i]) >= 1000000000
ExpectedIntegerType(c) == IF HasLongInteger(c) THEN "BIGINT" ELSE "INTEGER"
ZeroOneColumn(c) == \A i \in 1..Len(NonNull(c)) : NonNull(c)[i].n \in {0, 1}

\* C7, as claimed: every column whose non-null values are all integers is
\* inferred BIGINT when its largest magnitude has more than 9 digits and
\* INTEGER otherwise.
C7_AsClaimed ==
    (ipc # "start" /\ IntegerColumn(col)) => ctype.t = ExpectedIntegerType(col)

\* C7, amended: the same, for integer columns that hold a value other than
\* 0 and 1; a column of only 0s and 1s passes the boolean test first and is
\* inferred BOOLEAN.
C7_IntegerInference ==
    /\ (ipc # "start" /\ IntegerColumn(col) /\ ~ZeroOneColumn(col))
           => ctype.t = ExpectedIntegerType(col)
    /\ (ipc # "start" /\ IntegerColumn(col) /\ ZeroOneColumn(col))
           => ctype.t = "BOOLEAN"

\* a column of integers of 9 and of 10 digits, typed BIGINT
C7_Witness ==
    /\ ipc = "typed"
    /\ IntegerColumn(col) /\ HasLongInteger(col)
    /\ \E i \in 1..Len(col.vals) : col.vals[i] = PyInt(999999999)
    /\ ctype.t = "BIGINT"

\* C9, as claimed: whenever the CREATE is one the database takes, every
\* non-null value of the column is rendered as a literal the inferred column
\* type accepts, and a BOOLEAN column's values are rendered TRUE or FALSE.
C9_AsClaimed ==
    (ipc = "rendered" /\ TypeDeclarable(ctype)) =>
        \A i \in 1..Len(col.vals) :
            ~IsNull(col.vals[i]) =>
                /\ Accepts(ctype, lits[i])
                /\ ctype.t = "BOOLEAN" => LiteralKind(lits[i]) = "BOOLKW"

(***************************************************************************)
(* Claims about the Postgres helper (Spec).                                *)
(***************************************************************************)
Ended == pc \in {"returned", "raised"}
LoadEnded == call = "load" /\ Ended
Issued(op) == {i \in 1..Len(log) : log[i].op = op}
Taken(op) == {i \in 1..Len(log) : log[i].op = op /\ log[i].ok}
Before(is, j) == \E i \in is : i < j
OpenConnections == {k \in 1..Len(conns) : conns[k] = "open"}
OpenCursors == {k \in 1..Len(cursors) : cursors[k] = "open"}

\* C1, as claimed: when two loads in succession into the same table carry
\* frames of different row counts, and the database failed no well-formed
\* statement in either, the table ends holding exactly the second frame's rows.
C1_AsClaimed ==
    ( /\ LoadEnded
      /\ prev.valid /\ prev.destination_table = destination_table /\ prev.clean /\ ~faulted
      /\ ~prev.frame.isNone /\ ~df.isNone
      /\ prev.frame.nrows # df.nrows )
    => /\ tables[destination_table].exists
       /\ tables[destination_table].rows = InsertStatement(df, destination_table).values

\* C2: at every point of a load the committed tables are either those the
\* load found (nothing of it has taken effect) or, once its COMMIT
\* succeeded, those with the destination replaced by the table created from
\* the frame holding all of the frame's rows; a load that ends without a
\* successful COMMIT leaves the tables as it found them.
C2_Atomic ==
    call = "load" =>
        IF committed
        THEN /\ tables = [pre EXCEPT ![destination_table] = LoadedTable(df, destination_table, objectIsString)]
             /\ Taken("CREATE") # {} /\ Taken("INSERT") # {}
        ELSE tables = pre

\* a load that dropped the existing table, created the new one, had its
\* INSERT fail, and ended with the old table and its rows still in place
C2_Witness ==
    /\ LoadEnded
    /\ Taken("DROP") # {} /\ Taken("CREATE") # {}
    /\ Issued("INSERT") # {} /\ Taken("INSERT") = {}
    /\ pre[destination_table].exists /\ Len(pre[destination_table].rows) >= 1
    /\ tables = pre

\* C4, as claimed: when a call has ended, the connection and cursor it
\* opened are closed, no connection or cursor is open at all, and no call
\* has rolled back or closed an open connection that another call made.
C4_AsClaimed ==
    Ended =>
        /\ opened # 0 => (conns[opened] = "closed" /\ cursors[opened] = "closed")
        /\ OpenConnections = {} /\ OpenCursors = {}
        /\ ~foreign

\* the order of statements the claim and its amendment share: the existence
\* check comes first on the connection the load made; DROP only after an
\* existence check that answered true, and before CREATE; INSERT only after
\* a CREATE that succeeded; COMMIT only after a CREATE and an INSERT that
\* succeeded; no statement is issued twice
StatementOrder ==
    /\ (opened # 0 /\ log # <<>>) => log[1].op = "CHECK"
    /\ \A i \in Issued("DROP") :
          /\ Before(Taken("CHECK"), i) /\ table_exists
          /\ ~Before(Issued("CREATE"), i)
    /\ \A i \in Issued("CREATE") : Before(Taken("CHECK"), i)
    /\ \A i \in Issued("INSERT") : Before(Taken("CREATE"), i)
    /\ \A i \in Issued("COMMIT") : Before(Taken("CREATE"), i) /\ Before(Taken("INSERT"), i)
    /\ \A i, j \in 1..Len(log) : log[i].op = log[j].op => i = j

\* C8, as claimed: the statement order, and COMMIT and ROLLBACK are never
\* both issued in one load, and nothing is issued after either.
C8_AsClaimed ==
    call = "load" =>
        /\ StatementOrder
        /\ ~(Issued("COMMIT") # {} /\ Issued("ROLLBACK") # {})
        /\ \A i \in Issued("COMMIT") \cup Issued("ROLLBACK") : i = Len(log)

\* C8, amended: the statement order; ROLLBACK is issued in the same load as
\* COMMIT only when that COMMIT failed; nothing is issued after a COMMIT
\* that succeeded or after ROLLBACK; a COMMIT that failed is followed by the
\* ROLLBACK and nothing else.
C8_StatementOrder ==
    call = "load" =>
        /\ StatementOrder
        /\ (Issued("COMMIT") # {} /\ Issued("ROLLBACK") # {}) => Taken("COMMIT") = {}
        /\ \A i \in Taken("COMMIT") \cup Issued("ROLLBACK") : i = Len(log)
        /\ \A i \in Issued("COMMIT") \ Taken("COMMIT") :
              \/ i = Len(log) /\ pc = "l_rollback"
              \/ i = Len(log) - 1 /\ log[Len(log)].op = "ROLLBACK"

\* a load that found the table, dropped it, created it, inserted, had its
\* COMMIT fail, rolled back and returned
C8_Witness ==
    /\ LoadEnded
    /\ log = << Stmt("CHECK", TRUE), Stmt("DROP", TRUE), Stmt("CREATE", TRUE),
                Stmt("INSERT", TRUE), Stmt("COMMIT", FALSE), Stmt("ROLLBACK", TRUE) >>

(***************************************************************************)
(* Claims about the run of strava.py (SpecRun).                            *)
(***************************************************************************)
\* the token the workflow read had expired when it was read
WasExpired == wf.expires_at < wf.read_at
\* the workflow has returned a token to the fetch
WorkflowOver == rpc \in {"get", "load", "loading"}

\* C3, as claimed: no exception leaves load_dataframe_to_table, whatever
\* step failed; a load that ended without committing issued a ROLLBACK; and
\* no run of load_strava_data_to_postgres is ended by a load, so the
\* athletes load is still attempted after the activities load failed.
C3_AsClaimed ==
    /\ call = "load" => pc # "raised"
    /\ (LoadEnded /\ ~committed) => Issued("ROLLBACK") # {}
    /\ crash # "load"

\* C5: a workflow that read an expired token issues the refresh POST, then
\* writes the token file, then hands out the new token, and the GET carries
\* the token the file now holds; a workflow that read a token that had not
\* expired issues no POST, writes nothing, and the GET carries the stored
\* token.
C5_RefreshOrder ==
    IF WasExpired
    THEN /\ wf.events \in { <<>>, <<"POST">>, <<"POST", "WRITE">>, <<"POST", "WRITE", "GET">> }
         /\ WorkflowOver => Len(wf.events) >= 2
         /\ wf.sent # 0 =>
               /\ tokenFile.ok /\ wf.sent = tokenFile.access_token
               /\ wf.sent # wf.stored
    ELSE /\ wf.events \in { <<>>, <<"GET">> }
         /\ wf.sent # 0 => wf.sent = wf.stored

\* a fetch whose token had expired: refreshed, saved, then the GET
C5_Witness ==
    /\ WasExpired
    /\ wf.events = <<"POST", "WRITE", "GET">>
    /\ wf.sent = tokenFile.access_token

\* C6, as claimed: for a destination whose fetch got a non-success status,
\* the load opens no connection and issues no statement, and the failed
\* fetch does not end the run with an exception.
C6_AsClaimed ==
    /\ (call = "load" /\ destination_table \in fetchFailed) => (opened = 0 /\ log = <<>>)
    /\ crash # "fetch"

\* C10, as claimed: the token file always holds access_token, refresh_token
\* and expires_at.
C10_AsClaimed == tokenFile.ok

====
